---- MODULE Spec2Model ----
(***************************************************************************)
(* markitdown-mcp: the command-line entry point main(), the Starlette app  *)
(* built by create_starlette_app (the /sse, /messages/ and /convert        *)
(* routes) and the convert_to_markdown tool, all running on the single     *)
(* event loop that uvicorn.run starts.                                     *)
(***************************************************************************)
EXTENDS Integers, Sequences, FiniteSets, TLC

\* ---------------------------------------------------------------- bounds
MaxReq == 1        \* POST /convert requests
MaxSess == 2       \* SSE sessions
MaxPending == 1    \* frames of one session in flight (posted, not yet delivered)

Req == 1..MaxReq
Sess == 1..MaxSess

\* ----------------------------------------------------------- JSON values
JNull == [type |-> "null", s |-> "", n |-> 0]
JStr(x) == [type |-> "str", s |-> x, n |-> 0]
JInt(k) == [type |-> "int", s |-> "", n |-> k]
JList(k) == [type |-> "list", s |-> "", n |-> k]

\* values a client can put under "uri"
UriValues == {JNull, JStr(""), JStr("file:///a.txt"), JInt(0), JInt(5), JList(0), JList(1)}

\* request bodies: not JSON at all, JSON that is not an object, an object
\* without "uri", an object with "uri"
Bodies ==
  {[kind |-> "invalid", hasUri |-> FALSE, uri |-> JNull],
   [kind |-> "nonobject", hasUri |-> FALSE, uri |-> JNull],
   [kind |-> "object", hasUri |-> FALSE, uri |-> JNull]}
  \cup {[kind |-> "object", hasUri |-> TRUE, uri |-> v] : v \in UriValues}

\* Python truth value of a decoded JSON value (`if not uri`)
TruthyAlways(v) == TRUE
Truthy(v) ==
  CASE v.type = "null" -> FALSE
    [] v.type = "str" -> v.s # ""
    [] v.type = "int" -> v.n # 0
    [] v.type = "list" -> v.n # 0

\* body.get("uri"): the value, or None when the key is absent
BodyGet(body) == IF body.hasUri THEN body.uri ELSE JNull

\* ------------------------------------------------------------ exceptions
NoExc == [cls |-> "", msg |-> ""]
JSONDecodeError == [cls |-> "JSONDecodeError", msg |-> "Expecting value: line 1 column 1 (char 0)"]
AttributeError == [cls |-> "AttributeError", msg |-> "'list' object has no attribute 'get'"]
ConversionErrors == {[cls |-> "Exception", msg |-> "conversion failed"]}
Texts == {"# Title", "Example"}

\* str(e)
StrOf(e) == e.msg

\* ------------------------------------------------------------- responses
NoResp == [status |-> 0, key |-> "", val |-> ""]
JSONResponse(key, val, status) == [status |-> status, key |-> key, val |-> val]

MissingUriResponse == JSONResponse("error", "Missing required parameter: uri", 400)

SuccessResponseDropsText(markdown) == JSONResponse("markdown", "", 200)
SuccessResponse(markdown) == JSONResponse("markdown", markdown, 200)

ExceptClauseBadStatus(e) == JSONResponse("error", StrOf(e), 400)
ExceptClause(e) == JSONResponse("error", StrOf(e), 500)

\* ------------------------------------------------------------------ argv
NoHost == [given |-> FALSE, val |-> ""]
NoPort == [given |-> FALSE, ok |-> TRUE, val |-> 0]
HostArgs == {NoHost, [given |-> TRUE, val |-> ""], [given |-> TRUE, val |-> "0.0.0.0"],
             [given |-> TRUE, val |-> "localhost"]}
\* --port abc (ok = FALSE) is rejected by type=int
PortArgs == {NoPort, [given |-> TRUE, ok |-> FALSE, val |-> 0],
             [given |-> TRUE, ok |-> TRUE, val |-> 0],
             [given |-> TRUE, ok |-> TRUE, val |-> 3001],
             [given |-> TRUE, ok |-> TRUE, val |-> 8080]}
Argvs == [sse : BOOLEAN, host : HostArgs, port : PortArgs]

\* args.host / args.port as conditions
HostTruthy(h) == h.given /\ h.val # ""
PortTruthy(p) == p.given /\ p.val # 0

DefaultHost == "127.0.0.1"
DefaultPort == 3001
UsageExitStatus == 2

VARIABLES argv, pc, exitStatus, errReported, stdioStarted, networkStarted,
          bindHost, bindPort, req, sess, busy

mainVars == <<argv, pc, exitStatus, errReported, stdioStarted, networkStarted, bindHost, bindPort>>
vars == <<argv, pc, exitStatus, errReported, stdioStarted, networkStarted,
          bindHost, bindPort, req, sess, busy>>

NoConv == [kind |-> "none", val |-> ""]
NoReq == [pc |-> "none", body |-> [kind |-> "invalid", hasUri |-> FALSE, uri |-> JNull],
          calls |-> 0, arg |-> JNull, conv |-> NoConv, exc |-> NoExc, resp |-> NoResp]
NoSess == [st |-> "none", inq |-> 0, outq |-> 0]
Idle == [kind |-> "idle", id |-> 0]

\* the process starts with some command line
Init ==
  /\ argv \in Argvs
  /\ pc = "start"
  /\ exitStatus = 0
  /\ errReported = FALSE
  /\ stdioStarted = FALSE
  /\ networkStarted = FALSE
  /\ bindHost = ""
  /\ bindPort = 0
  /\ req = [r \in Req |-> NoReq]
  /\ sess = [s \in Sess |-> NoSess]
  /\ busy = Idle

\* the state main() reaches for `--sse`: uvicorn.run serves the app, no request yet
ServerInit ==
  /\ argv = [sse |-> TRUE, host |-> NoHost, port |-> NoPort]
  /\ pc = "serving"
  /\ exitStatus = 0
  /\ errReported = FALSE
  /\ stdioStarted = FALSE
  /\ networkStarted = TRUE
  /\ bindHost = DefaultHost
  /\ bindPort = DefaultPort
  /\ req = [r \in Req |-> NoReq]
  /\ sess = [s \in Sess |-> NoSess]
  /\ busy = Idle

\* ------------------------------------------------------------------ main
\* parser.parse_args(): a --port that is not an int ends the process
ParseArgs ==
  /\ pc = "start"
  /\ IF argv.port.given /\ ~argv.port.ok
       THEN /\ pc' = "exited"
            /\ exitStatus' = UsageExitStatus
            /\ errReported' = TRUE
       ELSE /\ pc' = "parsed"
            /\ UNCHANGED <<exitStatus, errReported>>
  /\ UNCHANGED <<argv, stdioStarted, networkStarted, bindHost, bindPort, req, sess, busy>>

\* if not args.sse and (args.host or args.port): parser.error(...)
CheckFlags ==
  /\ pc = "parsed"
  /\ IF ~argv.sse /\ (HostTruthy(argv.host) \/ PortTruthy(argv.port))
       THEN /\ pc' = "exited"
            /\ exitStatus' = UsageExitStatus
            /\ errReported' = TRUE
       ELSE /\ pc' = "checked"
            /\ UNCHANGED <<exitStatus, errReported>>
  /\ UNCHANGED <<argv, stdioStarted, networkStarted, bindHost, bindPort, req, sess, busy>>

\* if args.sse: uvicorn.run(starlette_app, host=host, port=port)
StartSse ==
  /\ pc = "checked"
  /\ argv.sse
  /\ bindHost' = (IF HostTruthy(argv.host) THEN argv.host.val ELSE DefaultHost)
  /\ bindPort' = (IF PortTruthy(argv.port) THEN argv.port.val ELSE DefaultPort)
  /\ networkStarted' = TRUE
  /\ pc' = "serving"
  /\ UNCHANGED <<argv, exitStatus, errReported, stdioStarted, req, sess, busy>>

\* else: mcp.run()
StartStdio ==
  /\ pc = "checked"
  /\ ~argv.sse
  /\ stdioStarted' = TRUE
  /\ pc' = "stdio"
  /\ UNCHANGED <<argv, exitStatus, errReported, networkStarted, bindHost, bindPort, req, sess, busy>>

\* -------------------------------------------------------- POST /convert
\* a client sends POST /convert with some body
ClientPost(r, body) ==
  /\ pc = "serving"
  /\ req[r].pc = "none"
  /\ req' = [req EXCEPT ![r] = [@ EXCEPT !.pc = "received", !.body = body]]
  /\ UNCHANGED <<mainVars, sess, busy>>

\* handle_http_convert from `body = await request.json()` up to the call of
\* convert_to_markdown(uri); the call itself blocks the event loop
HandleHttpConvert(r) ==
  /\ pc = "serving"
  /\ busy = Idle
  /\ req[r].pc = "received"
  /\ LET body == req[r].body
         uri == BodyGet(body)
     IN IF body.kind = "invalid"
          THEN /\ req' = [req EXCEPT ![r] = [@ EXCEPT !.pc = "done", !.exc = JSONDecodeError,
                                                      !.resp = ExceptClause(JSONDecodeError)]]
               /\ busy' = busy
          ELSE IF body.kind # "object"
          THEN /\ req' = [req EXCEPT ![r] = [@ EXCEPT !.pc = "done", !.exc = AttributeError,
                                                      !.resp = ExceptClause(AttributeError)]]
               /\ busy' = busy
          ELSE IF ~Truthy(uri)
          THEN /\ req' = [req EXCEPT ![r] = [@ EXCEPT !.pc = "done", !.resp = MissingUriResponse]]
               /\ busy' = busy
          ELSE /\ req' = [req EXCEPT ![r] = [@ EXCEPT !.pc = "converting", !.calls = @ + 1,
                                                      !.arg = uri]]
               /\ busy' = [kind |-> "http", id |-> r]
  /\ UNCHANGED <<mainVars, sess>>

\* MarkItDown().convert_uri(uri).markdown returns text
ConvertReturn(r, text) ==
  /\ busy = [kind |-> "http", id |-> r]
  /\ req' = [req EXCEPT ![r] = [@ EXCEPT !.pc = "done", !.conv = [kind |-> "ok", val |-> text],
                                         !.resp = SuccessResponse(text)]]
  /\ busy' = Idle
  /\ UNCHANGED <<mainVars, sess>>

\* MarkItDown().convert_uri(uri) raises
ConvertRaise(r, e) ==
  /\ busy = [kind |-> "http", id |-> r]
  /\ req' = [req EXCEPT ![r] = [@ EXCEPT !.pc = "done", !.conv = [kind |-> "raise", val |-> StrOf(e)],
                                         !.exc = e, !.resp = ExceptClause(e)]]
  /\ busy' = Idle
  /\ UNCHANGED <<mainVars, sess>>

\* ---------------------------------------------------------- SSE sessions
\* GET /sse: handle_sse enters sse.connect_sse and mcp_server.run
OpenSse(s) ==
  /\ pc = "serving"
  /\ busy = Idle
  /\ sess[s].st = "none"
  /\ sess' = [sess EXCEPT ![s].st = "open"]
  /\ UNCHANGED <<mainVars, req, busy>>

\* POST /messages/ for an open session: the frame reaches its read_stream
PostMessage(s) ==
  /\ pc = "serving"
  /\ busy = Idle
  /\ sess[s].st = "open"
  /\ sess[s].inq + sess[s].outq < MaxPending
  /\ sess' = [sess EXCEPT ![s].inq = @ + 1]
  /\ UNCHANGED <<mainVars, req, busy>>

\* mcp_server.run takes a tool call from read_stream and calls convert_to_markdown
SessionCallTool(s) ==
  /\ pc = "serving"
  /\ busy = Idle
  /\ sess[s].st = "open"
  /\ sess[s].inq > 0
  /\ sess' = [sess EXCEPT ![s].inq = @ - 1]
  /\ busy' = [kind |-> "sse", id |-> s]
  /\ UNCHANGED <<mainVars, req>>

\* the conversion returns (or raises); the response goes to write_stream
SessionConvertReturn(s) ==
  /\ busy = [kind |-> "sse", id |-> s]
  /\ sess' = [sess EXCEPT ![s].outq = @ + 1]
  /\ busy' = Idle
  /\ UNCHANGED <<mainVars, req>>

\* the event loop can run the stream writer of session s
CanDeliver(s) ==
  /\ pc = "serving"
  /\ busy = Idle
  /\ sess[s].st = "open"
  /\ sess[s].outq > 0

\* a pending event of write_stream is sent on the event stream of session s
DeliverSse(s) ==
  /\ CanDeliver(s)
  /\ sess' = [sess EXCEPT ![s].outq = @ - 1]
  /\ UNCHANGED <<mainVars, req, busy>>

\* the peer disconnects: connect_sse and mcp_server.run end
CloseSse(s) ==
  /\ pc = "serving"
  /\ busy = Idle
  /\ sess[s].st = "open"
  /\ sess' = [sess EXCEPT ![s].st = "closed", ![s].inq = 0, ![s].outq = 0]
  /\ UNCHANGED <<mainVars, req, busy>>

MainNext ==
  \/ ParseArgs
  \/ CheckFlags
  \/ StartSse
  \/ StartStdio

ServerNext ==
  \/ \E r \in Req, body \in Bodies : ClientPost(r, body)
  \/ \E r \in Req : HandleHttpConvert(r)
  \/ \E r \in Req, text \in Texts : ConvertReturn(r, text)
  \/ \E r \in Req, e \in ConversionErrors : ConvertRaise(r, e)
  \/ \E s \in Sess : OpenSse(s)
  \/ \E s \in Sess : PostMessage(s)
  \/ \E s \in Sess : SessionCallTool(s)
  \/ \E s \in Sess : SessionConvertReturn(s)
  \/ \E s \in Sess : DeliverSse(s)
  \/ \E s \in Sess : CloseSse(s)

\* main() from the command line to the start of a transport
SpecMain == Init /\ [][MainNext]_vars

\* the Starlette app while uvicorn.run serves it
SpecServer == ServerInit /\ [][ServerNext]_vars

\* ------------------------------------------------------------ properties

\* C1: a /convert request whose JSON object body has no "uri" field is answered
\* with status 400 and an "error" body, and convert_to_markdown is never
\* invoked while it is handled.
C1_MissingUriIs400 ==
  \A r \in Req :
    (req[r].pc # "none" /\ req[r].body.kind = "object" /\ ~req[r].body.hasUri)
      => /\ req[r].calls = 0
         /\ req[r].pc # "converting"
         /\ req[r].conv.kind = "none"
         /\ (req[r].pc = "done" => req[r].resp.status = 400 /\ req[r].resp.key = "error")

C1_Witness ==
  \E r \in Req :
    /\ req[r].pc = "done"
    /\ req[r].body.kind = "object"
    /\ ~req[r].body.hasUri
    /\ req[r].resp.status = 400

\* C2: when the body carries a uri and the collaborator returns text T, the
\* response is 200 {"markdown": T} and the collaborator was invoked exactly
\* once for the request; no request ever sees a second invocation.
C2_SuccessIs200Once ==
  \A r \in Req :
    /\ req[r].calls <= 1
    /\ (req[r].pc = "done" /\ req[r].body.hasUri /\ req[r].conv.kind = "ok")
         => /\ req[r].resp = [status |-> 200, key |-> "markdown", val |-> req[r].conv.val]
            /\ req[r].calls = 1
            /\ req[r].arg = req[r].body.uri

C2_Witness ==
  \E r \in Req :
    /\ req[r].pc = "done"
    /\ req[r].body.hasUri
    /\ req[r].conv = [kind |-> "ok", val |-> "Example"]
    /\ req[r].resp.status = 200

\* C3: a failure other than a missing uri (the collaborator raises, or the body
\* is not a JSON object) ends in status 500 with the failure description under
\* "error"; every finished request has exactly one of the statuses 200, 400, 500.
C3_OtherFailureIs500 ==
  \A r \in Req :
    req[r].pc = "done"
      => /\ req[r].resp.status \in {200, 400, 500}
         /\ (req[r].body.kind # "object" \/ req[r].conv.kind = "raise")
              => /\ req[r].exc # NoExc
                 /\ req[r].resp = [status |-> 500, key |-> "error", val |-> req[r].exc.msg]
         /\ (req[r].conv.kind = "raise" => req[r].resp.val = req[r].conv.val)

C3_Witness ==
  \E r \in Req :
    /\ req[r].pc = "done"
    /\ req[r].conv.kind = "raise"
    /\ req[r].resp.status = 500

\* C4: a /convert request whose uri is present but not a string is rejected
\* with status 400, and convert_to_markdown is never called with a non-string.
C4_MistypedUriRejected ==
  \A r \in Req :
    (req[r].pc # "none" /\ req[r].body.kind = "object" /\ req[r].body.hasUri
       /\ req[r].body.uri.type # "str")
      => /\ req[r].calls = 0
         /\ (req[r].pc = "done" => req[r].resp.status = 400)

\* C5: in stdio mode (no --sse) with a host or a port option supplied, whatever
\* its value, the process exits non-zero after reporting the error and neither
\* transport is ever started.
C5_StdioHostPortIsUsageError ==
  (~argv.sse /\ (argv.host.given \/ argv.port.given))
    => /\ ~stdioStarted
       /\ ~networkStarted
       /\ pc \notin {"stdio", "serving"}
       /\ (pc = "exited" => exitStatus # 0 /\ errReported)

\* C9: while a conversion is in progress for session A or for a /convert
\* request, an event pending for another open session B can still be delivered.
C9_DeliveryNotBlockedByConversion ==
  \A b \in Sess :
    (/\ busy.kind # "idle"
     /\ ~(busy.kind = "sse" /\ busy.id = b)
     /\ sess[b].st = "open"
     /\ sess[b].outq > 0)
      => CanDeliver(b)

\* C10: in network mode the server binds exactly the supplied host and port,
\* for every supplied value, and 127.0.0.1 / 3001 for whichever was not
\* supplied; the stdio transport is never started.
C10_BindsSuppliedHostPort ==
  /\ argv.sse => ~stdioStarted
  /\ networkStarted
       => /\ argv.sse
          /\ bindHost = (IF argv.host.given THEN argv.host.val ELSE "127.0.0.1")
          /\ bindPort = (IF argv.port.given THEN argv.port.val ELSE 3001)
====
